---------------------------- MODULE Spec2Model ----------------------------
(***************************************************************************)
(* The flat (bit-packed) codec of untyped Plutus core programs:            *)
(* crates/uplc/src/flat.rs.  Encoder output and decoder input are          *)
(* sequences of bits (each 0 or 1), most significant bit of a byte first.  *)
(* The bit-stream primitive (the `flat` crate: Encoder, Decoder) is not    *)
(* part of the translated files; it is modelled after the specification    *)
(* (sections 1, 4.1, 4.2, 6) and the byte fixture of the tests.            *)
(***************************************************************************)
EXTENDS Integers, Sequences, FiniteSets, TLC

(***************************************************************************)
(* Bounds of the model.                                                    *)
(***************************************************************************)
\* Largest number of Term nodes of a program handed to to_flat.
MaxNodes == 3
\* An arbitrary (possibly malformed) decoder input is any sequence of whole
\* bytes whose bits after the first MaxBits are all 0.
MaxBits == 12

(***************************************************************************)
(* Program constants.                                                      *)
(***************************************************************************)
BUILTIN_TAG_WIDTH == 7
CONST_TAG_WIDTH == 4
TERM_TAG_WIDTH == 4
\* Number of members of the closed DefaultFunction enumeration (ids 0..50).
NumBuiltins == 51

(***************************************************************************)
(* Small arithmetic helpers.                                               *)
(***************************************************************************)
RECURSIVE Pow2(_)
Pow2(n) ==
    IF n = 0 THEN 1 ELSE 2 * Pow2(n - 1)

Min(a, b) ==
    IF a < b THEN a ELSE b

\* The w bits of v (the low w bits when v does not fit), high bit first.
BitsOf(w, v) ==
    [i \in 1..w |-> (v \div Pow2(w - i)) % 2]

\* The unsigned value of a sequence of bits, high bit first.
RECURSIVE BitsVal(_)
BitsVal(s) ==
    IF s = <<>> THEN 0
    ELSE 2 * BitsVal(SubSeq(s, 1, Len(s) - 1)) + s[Len(s)]

\* The bits of a sequence of bytes.
RECURSIVE BytesBits(_)
BytesBits(bs) ==
    IF bs = <<>> THEN <<>> ELSE BitsOf(8, Head(bs)) \o BytesBits(Tail(bs))

\* The bytes of a sequence of bits whose length is a multiple of 8.
RECURSIVE BitsBytes(_)
BitsBytes(s) ==
    IF Len(s) < 8 THEN <<>>
    ELSE <<BitsVal(SubSeq(s, 1, 8))>> \o BitsBytes(SubSeq(s, 9, Len(s)))

(***************************************************************************)
(* Data model (crate::ast): binders, constants, terms, programs.  Every    *)
(* value of a kind is a record of one shape; unused fields hold defaults.  *)
(* A String is held as its UTF-8 bytes, a Char as its Unicode scalar.      *)
(***************************************************************************)
BinderKinds == {"Name", "DeBruijn", "NamedDeBruijn"}

\* Name {text, unique}
Name(text, unique) ==
    [text |-> text, unique |-> unique, index |-> 0]

\* DeBruijn(index)
DeBruijn(index) ==
    [text |-> <<>>, unique |-> 0, index |-> index]

\* NamedDeBruijn {text, index}
NamedDeBruijn(text, index) ==
    [text |-> text, unique |-> 0, index |-> index]

NoBinder == [text |-> <<>>, unique |-> 0, index |-> 0]

NoConstant == [kind |-> "None", i |-> 0, bs |-> <<>>, b |-> FALSE]

ConstInteger(i) == [kind |-> "Integer", i |-> i, bs |-> <<>>, b |-> FALSE]

ConstByteString(bs) == [kind |-> "ByteString", i |-> 0, bs |-> bs, b |-> FALSE]

ConstString(s) == [kind |-> "String", i |-> 0, bs |-> s, b |-> FALSE]

ConstChar(c) == [kind |-> "Char", i |-> c, bs |-> <<>>, b |-> FALSE]

ConstUnit == [kind |-> "Unit", i |-> 0, bs |-> <<>>, b |-> FALSE]

ConstBool(b) == [kind |-> "Bool", i |-> 0, bs |-> <<>>, b |-> b]

\* Term: the eight variants; sub holds the boxed subterms in declared order.
MkTerm(tag, name, c, fn, sub) ==
    [tag |-> tag, name |-> name, c |-> c, fn |-> fn, sub |-> sub]

Var(name) == MkTerm("Var", name, NoConstant, 0, <<>>)

Delay(term) == MkTerm("Delay", NoBinder, NoConstant, 0, <<term>>)

Lambda(parameter_name, body) ==
    MkTerm("Lambda", parameter_name, NoConstant, 0, <<body>>)

Apply(function, argument) ==
    MkTerm("Apply", NoBinder, NoConstant, 0, <<function, argument>>)

Constant(c) == MkTerm("Constant", NoBinder, c, 0, <<>>)

Force(term) == MkTerm("Force", NoBinder, NoConstant, 0, <<term>>)

Error == MkTerm("Error", NoBinder, NoConstant, 0, <<>>)

Builtin(fn) == MkTerm("Builtin", NoBinder, NoConstant, fn, <<>>)

NoTerm == MkTerm("None", NoBinder, NoConstant, 0, <<>>)

Program(version, term) == [version |-> version, term |-> term]

NoProgram == Program(<<>>, NoTerm)

(***************************************************************************)
(* Results.  An encoder result carries the encoder's bits; a decoder       *)
(* result carries the value and the cursor (bits consumed so far).         *)
(***************************************************************************)
NoErr == [kind |-> "None", n |-> 0, w |-> 0]

Err(kind, n, w) == [kind |-> kind, n |-> n, w |-> w]

EOk(e) == [ok |-> TRUE, e |-> e, err |-> NoErr]

EErr(e, err) == [ok |-> FALSE, e |-> e, err |-> err]

DOk(val, pos) == [st |-> "ok", val |-> val, pos |-> pos, err |-> NoErr]

DErr(err, pos) == [st |-> "err", val |-> 0, pos |-> pos, err |-> err]

DPanic(pos) == [st |-> "panic", val |-> 0, pos |-> pos, err |-> NoErr]

(***************************************************************************)
(* Bit-stream primitive, encoder side.                                     *)
(***************************************************************************)
\* Encoder::bits: num_bits bits of val.
EBits(num_bits, val, e) ==
    e \o BitsOf(num_bits, val)

\* Encoder::word: unsigned variable-length integer, 7 bits per byte, low
\* group first, high bit of each byte set when more bytes follow.
RECURSIVE EWord(_, _)
EWord(n, e) ==
    IF n < 128 THEN EBits(8, n, e)
    ELSE EWord(n \div 128, EBits(8, 128 + (n % 128), e))

\* zigzag::to_usize
ZigZag(i) ==
    IF i >= 0 THEN 2 * i ELSE -2 * i - 1

\* zigzag::to_isize
UnZigZag(u) ==
    IF u % 2 = 0 THEN u \div 2 ELSE -((u + 1) \div 2)

\* Encoder::integer: signed variable-length integer.
EInteger(i, e) ==
    EWord(ZigZag(i), e)

\* Encoder::bool: one bit.
EBool(b, e) ==
    e \o <<IF b THEN 1 ELSE 0>>

\* Encoder::filler: zero bits up to the last bit of the current byte, then 1.
EFiller(e) ==
    e \o [i \in 1..(8 - (Len(e) % 8)) |-> IF i = 8 - (Len(e) % 8) THEN 1 ELSE 0]

\* Encoder::write_blk: blocks of at most 255 bytes, each after its length,
\* closed by a zero length.
RECURSIVE WriteBlk(_)
WriteBlk(bs) ==
    IF bs = <<>> THEN <<0>>
    ELSE LET n == Min(255, Len(bs))
         IN  <<n>> \o SubSeq(bs, 1, n) \o WriteBlk(SubSeq(bs, n + 1, Len(bs)))

\* Encoder::bytes: filler, then the length-prefixed blocks.
EBytes(bs, e) ==
    EFiller(e) \o BytesBits(WriteBlk(bs))

\* char::encode_utf8: the 1 to 4 UTF-8 bytes of a Unicode scalar.
Utf8(c) ==
    IF c < 128 THEN <<c>>
    ELSE IF c < 2048 THEN <<192 + (c \div 64), 128 + (c % 64)>>
    ELSE IF c < 65536
         THEN <<224 + (c \div 4096), 128 + ((c \div 64) % 64), 128 + (c % 64)>>
    ELSE <<240 + (c \div 262144), 128 + ((c \div 4096) % 64),
           128 + ((c \div 64) % 64), 128 + (c % 64)>>


(***************************************************************************)
(* Encoding (flat.rs).  Try is the `?` operator on an encoder result: the  *)
(* first error ends the encoding and is returned as it is.                 *)
(***************************************************************************)
Try(r, F(_)) ==
    IF r.ok THEN F(r.e) ELSE r

\* safe_encode_bits(num_bits, byte, e)
safe_encode_bits(num_bits, byte, e) ==
    IF Pow2(num_bits) < byte
    THEN EErr(e, Err("Overflow", byte, num_bits))
    ELSE EOk(EBits(num_bits, byte, e))

\* encode_term_tag(tag, e)
encode_term_tag(tag, e) ==
    safe_encode_bits(TERM_TAG_WIDTH, tag, e)

\* encode_constant_tag(tag, e)
encode_constant_tag(tag, e) ==
    safe_encode_bits(CONST_TAG_WIDTH, tag, e)

\* Encoder::encode_list_with(encode_constant_tag, list): a 1 bit before each
\* item, a 0 bit after the last.
RECURSIVE EncodeListWith(_, _)
EncodeListWith(list, e) ==
    IF list = <<>> THEN EOk(e \o <<0>>)
    ELSE Try(encode_constant_tag(Head(list), e \o <<1>>),
             LAMBDA e1 : EncodeListWith(Tail(list), e1))

\* encode_constant(tag, e)
encode_constant(tag, e) ==
    EncodeListWith(<<tag>>, e)

\* Fault: Constant::encode with Char written behind the kind tag of
\* ByteString.
ConstantEncodeCharTagged(c, e) ==
    CASE c.kind = "Integer" ->
           Try(encode_constant(0, e), LAMBDA e1 : EOk(EInteger(c.i, e1)))
      [] c.kind = "ByteString" ->
           Try(encode_constant(1, e), LAMBDA e1 : EOk(EBytes(c.bs, e1)))
      [] c.kind = "String" ->
           Try(encode_constant(2, e), LAMBDA e1 : EOk(EBytes(c.bs, e1)))
      [] c.kind = "Char" ->
           Try(encode_constant(1, e), LAMBDA e1 : EOk(EBytes(Utf8(c.i), e1)))
      [] c.kind = "Unit" ->
           encode_constant(3, e)
      [] c.kind = "Bool" ->
           Try(encode_constant(4, e), LAMBDA e1 : EOk(EBool(c.b, e1)))

\* impl Encode for &Constant
ConstantEncode(c, e) ==
    CASE c.kind = "Integer" ->
           Try(encode_constant(0, e), LAMBDA e1 : EOk(EInteger(c.i, e1)))
      [] c.kind = "ByteString" ->
           Try(encode_constant(1, e), LAMBDA e1 : EOk(EBytes(c.bs, e1)))
      [] c.kind = "String" ->
           Try(encode_constant(2, e), LAMBDA e1 : EOk(EBytes(c.bs, e1)))
      [] c.kind = "Char" ->
           EOk(EBytes(Utf8(c.i), e))
      [] c.kind = "Unit" ->
           encode_constant(3, e)
      [] c.kind = "Bool" ->
           Try(encode_constant(4, e), LAMBDA e1 : EOk(EBool(c.b, e1)))

\* impl Encode for Unique
UniqueEncode(unique, e) ==
    EOk(EInteger(unique, e))

\* impl Encode for Name
NameEncode(name, e) ==
    Try(EOk(EBytes(name.text, e)), LAMBDA e1 : UniqueEncode(name.unique, e1))

\* impl Encode for DeBruijn
DeBruijnEncode(index, e) ==
    EOk(EWord(index, e))

\* impl Encode for NamedDeBruijn
NamedDeBruijnEncode(name, e) ==
    Try(EOk(EBytes(name.text, e)), LAMBDA e1 : DeBruijnEncode(name.index, e1))

\* T::encode for the binder in use (a variable occurrence)
BinderOccEncode(bk, name, e) ==
    CASE bk = "Name" -> NameEncode(name, e)
      [] bk = "DeBruijn" -> DeBruijnEncode(name.index, e)
      [] bk = "NamedDeBruijn" -> NamedDeBruijnEncode(name, e)

\* impl Binder for Name: binder_encode
NameBinderEncode(name, e) ==
    NameEncode(name, e)

\* impl Binder for NamedDeBruijn: binder_encode
NamedDeBruijnBinderEncode(name, e) ==
    EOk(EBytes(name.text, e))

\* Fault: a DeBruijn Lambda parameter written like an occurrence.
DeBruijnBinderEncodeIndexed(name, e) ==
    DeBruijnEncode(name.index, e)

\* impl Binder for DeBruijn: binder_encode
DeBruijnBinderEncode(name, e) ==
    EOk(e)

\* T::binder_encode for the binder in use (a Lambda parameter)
binder_encode(bk, name, e) ==
    CASE bk = "Name" -> NameBinderEncode(name, e)
      [] bk = "DeBruijn" -> DeBruijnBinderEncode(name, e)
      [] bk = "NamedDeBruijn" -> NamedDeBruijnBinderEncode(name, e)

\* impl Encode for DefaultFunction
DefaultFunctionEncode(fn, e) ==
    EOk(EBits(BUILTIN_TAG_WIDTH, fn, e))

\* impl Encode for Term<T>
RECURSIVE TermEncode(_, _, _)
TermEncode(bk, t, e) ==
    CASE t.tag = "Var" ->
           Try(encode_term_tag(0, e),
               LAMBDA e1 : BinderOccEncode(bk, t.name, e1))
      [] t.tag = "Delay" ->
           Try(encode_term_tag(1, e),
               LAMBDA e1 : TermEncode(bk, t.sub[1], e1))
      [] t.tag = "Lambda" ->
           Try(encode_term_tag(2, e),
               LAMBDA e1 : Try(binder_encode(bk, t.name, e1),
                               LAMBDA e2 : TermEncode(bk, t.sub[1], e2)))
      [] t.tag = "Apply" ->
           Try(encode_term_tag(3, e),
               LAMBDA e1 : Try(TermEncode(bk, t.sub[1], e1),
                               LAMBDA e2 : TermEncode(bk, t.sub[2], e2)))
      [] t.tag = "Constant" ->
           Try(encode_term_tag(4, e),
               LAMBDA e1 : ConstantEncode(t.c, e1))
      [] t.tag = "Force" ->
           Try(encode_term_tag(5, e),
               LAMBDA e1 : TermEncode(bk, t.sub[1], e1))
      [] t.tag = "Error" ->
           encode_term_tag(6, e)
      [] t.tag = "Builtin" ->
           Try(encode_term_tag(7, e),
               LAMBDA e1 : DefaultFunctionEncode(t.fn, e1))

\* Fault: Program::encode with minor written before major.
ProgramEncodeMinorFirst(bk, p, e) ==
    Try(EOk(EWord(p.version[2], e)),
        LAMBDA e1 : Try(EOk(EWord(p.version[1], e1)),
        LAMBDA e2 : Try(EOk(EWord(p.version[3], e2)),
        LAMBDA e3 : TermEncode(bk, p.term, e3))))

\* impl Encode for Program<T>
ProgramEncode(bk, p, e) ==
    Try(EOk(EWord(p.version[1], e)),
        LAMBDA e1 : Try(EOk(EWord(p.version[2], e1)),
        LAMBDA e2 : Try(EOk(EWord(p.version[3], e2)),
        LAMBDA e3 : TermEncode(bk, p.term, e3))))

\* Flat::flat: encode into a fresh encoder, then pad with the filler.
Flat(bk, p) ==
    Try(ProgramEncode(bk, p, <<>>), LAMBDA e1 : EOk(EFiller(e1)))

\* Program::to_flat
to_flat(bk, p) ==
    Flat(bk, p)

(***************************************************************************)
(* Bit-stream primitive, decoder side.  inp is the input as bits, p the    *)
(* cursor: the number of bits consumed.  A read past the end of the input  *)
(* is the EndOfBuffer error and consumes nothing.  DTry is the `?`         *)
(* operator on a decoder result.                                           *)
(***************************************************************************)
DTry(r, F(_, _)) ==
    IF r.st = "ok" THEN F(r.val, r.pos) ELSE r

\* Decoder::bit
DBit(inp, p) ==
    IF p >= Len(inp) THEN DErr(Err("EndOfBuffer", 0, 0), p)
    ELSE DOk(inp[p + 1], p + 1)

\* Decoder::bits8(num_bits)
DBits8(num_bits, inp, p) ==
    IF p + num_bits > Len(inp) THEN DErr(Err("EndOfBuffer", 0, 0), p)
    ELSE DOk(BitsVal(SubSeq(inp, p + 1, p + num_bits)), p + num_bits)

\* Decoder::word: bytes of 7 value bits, low group first, until a byte
\* whose high bit is clear.  mult is 2^shl, acc the value so far.
RECURSIVE DWordFrom(_, _, _, _)
DWordFrom(inp, p, mult, acc) ==
    DTry(DBits8(8, inp, p),
         LAMBDA word8, q :
            IF word8 >= 128
            THEN DWordFrom(inp, q, mult * 128, acc + (word8 % 128) * mult)
            ELSE DOk(acc + word8 * mult, q))

DWord(inp, p) ==
    DWordFrom(inp, p, 1, 0)

\* Decoder::integer
DInteger(inp, p) ==
    DTry(DWord(inp, p), LAMBDA u, q : DOk(UnZigZag(u), q))

\* Decoder::bool
DBool(inp, p) ==
    DTry(DBit(inp, p), LAMBDA b, q : DOk(b = 1, q))

\* Decoder::filler: zero bits up to and including the first 1 bit.
RECURSIVE DFiller(_, _)
DFiller(inp, p) ==
    DTry(DBit(inp, p),
         LAMBDA b, q : IF b = 0 THEN DFiller(inp, q) ELSE DOk(0, q))

\* Decoder::byte_array: at a byte boundary, blocks of bytes each after its
\* length, until a zero length.
RECURSIVE DBlocks(_, _, _)
DBlocks(inp, p, acc) ==
    DTry(DBits8(8, inp, p),
         LAMBDA blk_len, q :
            IF blk_len = 0 THEN DOk(acc, q)
            ELSE IF q + 8 * blk_len > Len(inp)
                 THEN DErr(Err("EndOfBuffer", 0, 0), q)
                 ELSE DBlocks(inp, q + 8 * blk_len,
                         acc \o BitsBytes(SubSeq(inp, q + 1, q + 8 * blk_len))))

DByteArray(inp, p) ==
    IF p % 8 # 0 THEN DErr(Err("BufferNotByteAligned", 0, 0), p)
    ELSE DBlocks(inp, p, <<>>)

\* Decoder::bytes: filler, then the byte array.
DBytes(inp, p) ==
    DTry(DFiller(inp, p), LAMBDA x, q : DByteArray(inp, q))

\* std::string::String::from_utf8: whether the bytes are well-formed UTF-8.
RECURSIVE Utf8Valid(_)
Utf8Valid(bs) ==
    LET n == Len(bs)
        Cont(k) == k <= n /\ bs[k] \in 128..191
        Rest(k) == Utf8Valid(SubSeq(bs, k, n))
    IN  IF n = 0 THEN TRUE
        ELSE CASE bs[1] < 128 -> Rest(2)
               [] bs[1] \in 194..223 -> Cont(2) /\ Rest(3)
               [] bs[1] \in 224..239 ->
                    /\ Cont(2) /\ Cont(3)
                    /\ (bs[1] = 224 => bs[2] >= 160)
                    /\ (bs[1] = 237 => bs[2] <= 159)
                    /\ Rest(4)
               [] bs[1] \in 240..244 ->
                    /\ Cont(2) /\ Cont(3) /\ Cont(4)
                    /\ (bs[1] = 240 => bs[2] >= 144)
                    /\ (bs[1] = 244 => bs[2] <= 143)
                    /\ Rest(5)
               [] OTHER -> FALSE

\* Decoder::utf8 (String::decode): the bytes, which must be UTF-8.
DUtf8(inp, p) ==
    DTry(DBytes(inp, p),
         LAMBDA bs, q : IF Utf8Valid(bs) THEN DOk(bs, q)
                        ELSE DErr(Err("InvalidUtf8", 0, 0), q))

\* TryFrom<u8> for DefaultFunction: the reverse mapping of the enumeration.
TryIntoDefaultFunction(tag, q) ==
    IF tag < NumBuiltins THEN DOk(tag, q)
    ELSE DErr(Err("InvalidBuiltin", tag, 0), q)

(***************************************************************************)
(* Decoding (flat.rs): the parts below a Term.                             *)
(***************************************************************************)
\* decode_term_tag(d)
decode_term_tag(inp, p) ==
    DBits8(TERM_TAG_WIDTH, inp, p)

\* decode_constant_tag(d)
decode_constant_tag(inp, p) ==
    DBits8(CONST_TAG_WIDTH, inp, p)

\* Decoder::decode_list_with(decode_constant_tag): an item after each 1 bit,
\* until a 0 bit.
RECURSIVE DecodeListWith(_, _, _)
DecodeListWith(inp, p, acc) ==
    DTry(DBit(inp, p),
         LAMBDA b, q :
            IF b = 0 THEN DOk(acc, q)
            ELSE DTry(decode_constant_tag(inp, q),
                      LAMBDA tag, q2 : DecodeListWith(inp, q2, Append(acc, tag))))

\* Fault: decode_constant without the check of the length of the list.
decode_constant_first(inp, p) ==
    DTry(DecodeListWith(inp, p, <<>>),
         LAMBDA u8_list, q :
            IF Len(u8_list) = 0 THEN DPanic(q) ELSE DOk(u8_list[1], q))

\* decode_constant(d): u8_list[0] of an empty list is an index out of
\* bounds, a panic.
decode_constant(inp, p) ==
    DTry(DecodeListWith(inp, p, <<>>),
         LAMBDA u8_list, q :
            IF Len(u8_list) > 1 THEN DErr(Err("ImproperConstantTag", 0, 0), q)
            ELSE IF Len(u8_list) = 0 THEN DPanic(q)
            ELSE DOk(u8_list[1], q))

\* impl Decode for Constant
ConstantDecode(inp, p) ==
    DTry(decode_constant(inp, p),
         LAMBDA x, q :
            CASE x = 0 -> DTry(DInteger(inp, q),
                               LAMBDA i, q2 : DOk(ConstInteger(i), q2))
              [] x = 1 -> DTry(DBytes(inp, q),
                               LAMBDA bs, q2 : DOk(ConstByteString(bs), q2))
              [] x = 2 -> DTry(DUtf8(inp, q),
                               LAMBDA s, q2 : DOk(ConstString(s), q2))
              [] x = 3 -> DOk(ConstUnit, q)
              [] x = 4 -> DTry(DBool(inp, q),
                               LAMBDA b, q2 : DOk(ConstBool(b), q2))
              [] OTHER -> DErr(Err("UnknownConstantTag", x, 0), q))

\* impl Decode for Unique
UniqueDecode(inp, p) ==
    DInteger(inp, p)

\* impl Decode for Name
NameDecode(inp, p) ==
    DTry(DUtf8(inp, p),
         LAMBDA text, q : DTry(UniqueDecode(inp, q),
         LAMBDA unique, q2 : DOk(Name(text, unique), q2)))

\* impl Decode for DeBruijn
DeBruijnDecode(inp, p) ==
    DTry(DWord(inp, p), LAMBDA index, q : DOk(DeBruijn(index), q))

\* impl Decode for NamedDeBruijn
NamedDeBruijnDecode(inp, p) ==
    DTry(DUtf8(inp, p),
         LAMBDA text, q : DTry(DeBruijnDecode(inp, q),
         LAMBDA db, q2 : DOk(NamedDeBruijn(text, db.index), q2)))

\* T::decode for the binder in use (a variable occurrence)
BinderOccDecode(bk, inp, p) ==
    CASE bk = "Name" -> NameDecode(inp, p)
      [] bk = "DeBruijn" -> DeBruijnDecode(inp, p)
      [] bk = "NamedDeBruijn" -> NamedDeBruijnDecode(inp, p)

\* impl Binder for Name: binder_decode
NameBinderDecode(inp, p) ==
    NameDecode(inp, p)

\* impl Binder for NamedDeBruijn: binder_decode
NamedDeBruijnBinderDecode(inp, p) ==
    DTry(DUtf8(inp, p), LAMBDA text, q : DOk(NamedDeBruijn(text, 0), q))

\* impl Binder for DeBruijn: binder_decode
DeBruijnBinderDecode(inp, p) ==
    DOk(DeBruijn(0), p)

\* T::binder_decode for the binder in use (a Lambda parameter)
binder_decode(bk, inp, p) ==
    CASE bk = "Name" -> NameBinderDecode(inp, p)
      [] bk = "DeBruijn" -> DeBruijnBinderDecode(inp, p)
      [] bk = "NamedDeBruijn" -> NamedDeBruijnBinderDecode(inp, p)

\* impl Decode for DefaultFunction
DefaultFunctionDecode(inp, p) ==
    DTry(DBits8(BUILTIN_TAG_WIDTH, inp, p),
         LAMBDA builtin_tag, q : TryIntoDefaultFunction(builtin_tag, q))

(***************************************************************************)
(* Decoding a Term.  Term::decode is recursive; the model runs it one call *)
(* at a time.  A call reads its tag and the fields that are not Terms      *)
(* (TermDecode); the calls that wait for a subterm are the frames of the   *)
(* stack, innermost last; a call that has its fields returns its Term to   *)
(* the frame above (TermReturn).                                           *)
(***************************************************************************)
Frame(k, name, t, version) ==
    [k |-> k, name |-> name, t |-> t, version |-> version]

NoFrame == Frame("None", NoBinder, NoTerm, <<>>)

\* What one call does before its first recursive call: st/err/pos as in a
\* decoder result; tagged, tag: whether and which tag it read; kind "leaf"
\* with the finished Term val, or kind "push" with the frame that waits.
HeadFail(r, tagged, tag) ==
    [st |-> r.st, err |-> r.err, pos |-> r.pos, tagged |-> tagged, tag |-> tag,
     kind |-> "none", val |-> NoTerm, frame |-> NoFrame]

HeadLeaf(t, q, tag) ==
    [st |-> "ok", err |-> NoErr, pos |-> q, tagged |-> TRUE, tag |-> tag,
     kind |-> "leaf", val |-> t, frame |-> NoFrame]

HeadPush(frame, q, tag) ==
    [st |-> "ok", err |-> NoErr, pos |-> q, tagged |-> TRUE, tag |-> tag,
     kind |-> "push", val |-> NoTerm, frame |-> frame]

\* impl Decode for Term<T>: the match on decode_term_tag(d)?
TermDecode(bk, inp, p) ==
    LET tr == decode_term_tag(inp, p)
        x == tr.val
        q == tr.pos
    IN  IF tr.st # "ok" THEN HeadFail(tr, FALSE, 0)
        ELSE CASE x = 0 ->
                    LET r == BinderOccDecode(bk, inp, q)
                    IN  IF r.st = "ok" THEN HeadLeaf(Var(r.val), r.pos, x)
                        ELSE HeadFail(r, TRUE, x)
               [] x = 1 ->
                    HeadPush(Frame("Delay", NoBinder, NoTerm, <<>>), q, x)
               [] x = 2 ->
                    LET r == binder_decode(bk, inp, q)
                    IN  IF r.st = "ok"
                        THEN HeadPush(Frame("Lambda", r.val, NoTerm, <<>>),
                                      r.pos, x)
                        ELSE HeadFail(r, TRUE, x)
               [] x = 3 ->
                    HeadPush(Frame("ApplyFunction", NoBinder, NoTerm, <<>>), q, x)
               [] x = 4 ->
                    LET r == ConstantDecode(inp, q)
                    IN  IF r.st = "ok" THEN HeadLeaf(Constant(r.val), r.pos, x)
                        ELSE HeadFail(r, TRUE, x)
               [] x = 5 ->
                    HeadPush(Frame("Force", NoBinder, NoTerm, <<>>), q, x)
               [] x = 6 ->
                    HeadLeaf(Error, q, x)
               [] x = 7 ->
                    LET r == DefaultFunctionDecode(inp, q)
                    IN  IF r.st = "ok" THEN HeadLeaf(Builtin(r.val), r.pos, x)
                        ELSE HeadFail(r, TRUE, x)
               [] OTHER ->
                    HeadFail(DErr(Err("UnknownTermTag", x, 0), q), TRUE, x)

\* Fault: Term::decode with the fields of Apply filled in the other order.
RECURSIVE TermReturnSwapped(_, _)
TermReturnSwapped(t, stk) ==
    IF stk = <<>>
    THEN [stack |-> <<>>, pc |-> "none", result |-> Program(<<>>, t)]
    ELSE LET top == stk[Len(stk)]
             rest == SubSeq(stk, 1, Len(stk) - 1)
         IN  CASE top.k = "Delay" -> TermReturnSwapped(Delay(t), rest)
               [] top.k = "Lambda" ->
                    TermReturnSwapped(Lambda(top.name, t), rest)
               [] top.k = "ApplyFunction" ->
                    [stack |-> Append(rest,
                                  Frame("ApplyArgument", NoBinder, t, <<>>)),
                     pc |-> "term", result |-> NoProgram]
               [] top.k = "ApplyArgument" ->
                    TermReturnSwapped(Apply(t, top.t), rest)
               [] top.k = "Force" -> TermReturnSwapped(Force(t), rest)
               [] top.k = "Program" ->
                    [stack |-> rest, pc |-> "filler",
                     result |-> Program(top.version, t)]

\* A call returns the Term t: the frame above takes it.  The result names
\* the stack left, what runs next (pc) and, at the end, the value decoded.
RECURSIVE TermReturn(_, _)
TermReturn(t, stk) ==
    IF stk = <<>>
    THEN [stack |-> <<>>, pc |-> "none", result |-> Program(<<>>, t)]
    ELSE LET top == stk[Len(stk)]
             rest == SubSeq(stk, 1, Len(stk) - 1)
         IN  CASE top.k = "Delay" -> TermReturn(Delay(t), rest)
               [] top.k = "Lambda" -> TermReturn(Lambda(top.name, t), rest)
               [] top.k = "ApplyFunction" ->
                    [stack |-> Append(rest,
                                  Frame("ApplyArgument", NoBinder, t, <<>>)),
                     pc |-> "term", result |-> NoProgram]
               [] top.k = "ApplyArgument" -> TermReturn(Apply(top.t, t), rest)
               [] top.k = "Force" -> TermReturn(Force(t), rest)
               [] top.k = "Program" ->
                    [stack |-> rest, pc |-> "filler",
                     result |-> Program(top.version, t)]

\* Fault: a failure of a call that the enclosing call does not return: it
\* goes on to decode what follows.
PropagateToSibling(r, stk) ==
    [status |-> "running", err |-> NoErr, stack |-> stk, pc |-> "term",
     result |-> NoProgram]

\* The `?` of every enclosing call: a failure r of the innermost call ends
\* all of them with r; nothing more is decoded and no value is returned.
Propagate(r, stk) ==
    [status |-> r.st, err |-> r.err, stack |-> <<>>, pc |-> "none",
     result |-> NoProgram]

\* impl Decode for Program<T>: the version, before Term::decode.
ProgramDecode(inp, p) ==
    DTry(DWord(inp, p),
         LAMBDA major, q1 : DTry(DWord(inp, q1),
         LAMBDA minor, q2 : DTry(DWord(inp, q2),
         LAMBDA patch, q3 : DOk(<<major, minor, patch>>, q3))))

(***************************************************************************)
(* The values the model encodes.                                           *)
(***************************************************************************)
\* "x" and "é" as UTF-8
Texts == {<<120>>, <<195, 169>>}

BindersOf(bk) ==
    CASE bk = "Name" -> {Name(<<120>>, 0), Name(<<195, 169>>, -65)}
      [] bk = "DeBruijn" -> {DeBruijn(0), DeBruijn(130)}
      [] bk = "NamedDeBruijn" ->
           {NamedDeBruijn(<<120>>, 0), NamedDeBruijn(<<195, 169>>, 130)}

\* 'A', 'é', '€' and U+1F600: 1, 2, 3 and 4 bytes of UTF-8
Chars == {65, 233, 8364, 128512}

Constants ==
    {ConstInteger(11), ConstInteger(-65),
     ConstByteString(<<>>), ConstByteString(<<0, 255>>),
     ConstString(<<104, 105>>), ConstUnit, ConstBool(TRUE), ConstBool(FALSE)}
    \cup {ConstChar(c) : c \in Chars}

BuiltinIds == 0..(NumBuiltins - 1)

Leaves(bk) ==
    {Var(n) : n \in BindersOf(bk)} \cup {Constant(c) : c \in Constants}
    \cup {Error, Builtin(0), Builtin(NumBuiltins - 1)}

\* The Terms of exactly n nodes.
RECURSIVE TermsOfSize(_, _)
TermsOfSize(bk, n) ==
    IF n = 1 THEN Leaves(bk)
    ELSE {Delay(t) : t \in TermsOfSize(bk, n - 1)}
         \cup {Force(t) : t \in TermsOfSize(bk, n - 1)}
         \cup {Lambda(b, t) : b \in BindersOf(bk), t \in TermsOfSize(bk, n - 1)}
         \cup UNION {{Apply(f, a) : f \in TermsOfSize(bk, k),
                                    a \in TermsOfSize(bk, n - 1 - k)} :
                     k \in 1..(n - 2)}

Terms(bk) ==
    UNION {TermsOfSize(bk, n) : n \in 1..MaxNodes}

Versions == {<<11, 22, 33>>, <<1, 0, 300>>}

Programs(bk) ==
    {Program(v, t) : v \in Versions, t \in Terms(bk)}

\* Encoder contents before a single call: zero bits, every alignment.
Prefixes == {[i \in 1..k |-> 0] : k \in 0..7}

(***************************************************************************)
(* State.                                                                  *)
(***************************************************************************)
VARIABLES
    phase,     \* "init", "encoded", "decoding", "done", "called"
    bk,        \* the binder strategy T of Program<T> / Term<T>
    orig,      \* the Program handed to to_flat
    out,       \* the result of to_flat
    input,     \* the decoder's input, as bits
    raw,       \* whether the input is arbitrary bytes, revealed as read
    fed,       \* the number of bits of arbitrary input revealed
    pos,       \* the decoder's cursor, in bits
    pc,        \* the call that runs next: "program", "term", "filler"
    stack,     \* the calls of Term::decode that wait for a subterm
    status,    \* "none", "running", "ok", "err", "panic"
    err,       \* the error returned
    result,    \* the Program (or Term, with no version) returned
    tagLog,    \* the term tags read, in order, each with its position
    constLog,  \* the last Constant::decode: the tag list read and the outcome
    failure,   \* the first call that failed: its own result
    call       \* a single call of an encoding function and its result

vars ==
    <<phase, bk, orig, out, input, raw, fed, pos, pc, stack, status, err,
      result, tagLog, constLog, failure, call>>

NoConstLog ==
    [seen |-> FALSE, listed |-> FALSE, tags |-> <<>>, after |-> 0,
     st |-> "none", c |-> NoConstant, err |-> NoErr, pos |-> 0]

NoFailure ==
    [seen |-> FALSE, st |-> "none", err |-> NoErr, pos |-> 0, nodes |-> 0]

NoCall ==
    [op |-> "none", v |-> 0, c |-> NoConstant, before |-> <<>>,
     res |-> EOk(<<>>)]

Init ==
    /\ phase = "init"
    /\ bk = "Name"
    /\ orig = NoProgram
    /\ out = EOk(<<>>)
    /\ input = <<>>
    /\ raw = FALSE
    /\ fed = 0
    /\ pos = 0
    /\ pc = "none"
    /\ stack = <<>>
    /\ status = "none"
    /\ err = NoErr
    /\ result = NoProgram
    /\ tagLog = <<>>
    /\ constLog = NoConstLog
    /\ failure = NoFailure
    /\ call = NoCall

(***************************************************************************)
(* Operations.                                                             *)
(***************************************************************************)
\* program.to_flat() of a Program<T>
ToFlat ==
    /\ phase = "init"
    /\ \E b \in BinderKinds : \E p \in Programs(b) :
          /\ bk' = b
          /\ orig' = p
          /\ out' = to_flat(b, p)
    /\ phase' = "encoded"
    /\ UNCHANGED <<input, raw, fed, pos, pc, stack, status, err, result,
                   tagLog, constLog, failure, call>>

\* Program::unflat(&bytes) of the bytes to_flat returned: Program::decode
\* starts at the first bit.
Unflat ==
    /\ phase = "encoded"
    /\ out.ok
    /\ phase' = "decoding"
    /\ input' = out.e
    /\ raw' = FALSE
    /\ pos' = 0
    /\ pc' = "program"
    /\ status' = "running"
    /\ UNCHANGED <<bk, orig, out, fed, stack, err, result, tagLog, constLog,
                   failure, call>>

\* Program::unflat of arbitrary bytes after a well-formed version.
UnflatBytes ==
    /\ phase = "init"
    /\ phase' = "decoding"
    /\ bk' \in BinderKinds
    /\ input' = EWord(33, EWord(22, EWord(11, <<>>)))
    /\ raw' = TRUE
    /\ pos' = 0
    /\ pc' = "program"
    /\ status' = "running"
    /\ UNCHANGED <<orig, out, fed, stack, err, result, tagLog, constLog,
                   failure, call>>

\* Term::decode(d) on a decoder over arbitrary bytes.
DecodeBytes ==
    /\ phase = "init"
    /\ phase' = "decoding"
    /\ bk' \in BinderKinds
    /\ input' = <<>>
    /\ raw' = TRUE
    /\ pos' = 0
    /\ pc' = "term"
    /\ status' = "running"
    /\ UNCHANGED <<orig, out, fed, stack, err, result, tagLog, constLog,
                   failure, call>>

\* Whether the call that runs next reads past the bytes revealed so far.
NeedsInput ==
    CASE pc = "program" -> ProgramDecode(input, pos).err.kind = "EndOfBuffer"
      [] pc = "term" -> TermDecode(bk, input, pos).err.kind = "EndOfBuffer"
      [] pc = "filler" -> DFiller(input, pos).err.kind = "EndOfBuffer"
      [] OTHER -> FALSE

\* The arbitrary input is revealed one bit at a time, as the decoder reads
\* it: its next bit is bit.  The input is whole bytes, so it ends only at a
\* byte boundary; there the call that runs next fails with EndOfBuffer.
Feed ==
    /\ phase = "decoding"
    /\ raw
    /\ ~(fed >= MaxBits /\ Len(input) % 8 = 0)
    /\ NeedsInput
    /\ \E bit \in (IF fed < MaxBits THEN {0, 1} ELSE {0}) :
          input' = Append(input, bit)
    /\ fed' = fed + 1
    /\ UNCHANGED <<phase, bk, orig, out, raw, pos, pc, stack, status, err,
                   result, tagLog, constLog, failure, call>>

\* Whether the input may end where it is: it is known whole, or the call
\* that runs next reads no bit that is not revealed, or a byte ends here.
InputReady ==
    raw /\ NeedsInput => Len(input) % 8 = 0

\* Program::decode: the version; Term::decode follows.
DecodeProgram ==
    /\ phase = "decoding"
    /\ pc = "program"
    /\ InputReady
    /\ LET r == ProgramDecode(input, pos)
       IN  /\ pos' = r.pos
           /\ IF r.st = "ok"
              THEN /\ stack' = <<Frame("Program", NoBinder, NoTerm, r.val)>>
                   /\ pc' = "term"
                   /\ UNCHANGED <<phase, status, err, failure>>
              ELSE /\ stack' = <<>>
                   /\ pc' = "none"
                   /\ phase' = "done"
                   /\ status' = r.st
                   /\ err' = r.err
                   /\ failure' = [seen |-> TRUE, st |-> r.st, err |-> r.err,
                                  pos |-> r.pos, nodes |-> 0]
    /\ UNCHANGED <<bk, orig, out, input, raw, fed, result, tagLog, constLog,
                   call>>

\* What Constant::decode does at bit q: the tag list in the stream and the
\* outcome of the call.
ConstantObserved(inp, q) ==
    LET l == DecodeListWith(inp, q, <<>>)
        r == ConstantDecode(inp, q)
    IN  [seen |-> TRUE, listed |-> l.st = "ok",
         tags |-> IF l.st = "ok" THEN l.val ELSE <<>>, after |-> l.pos,
         st |-> r.st, c |-> IF r.st = "ok" THEN r.val ELSE NoConstant,
         err |-> r.err, pos |-> r.pos]

\* One call of Term::decode.
DecodeTerm ==
    /\ phase = "decoding"
    /\ pc = "term"
    /\ InputReady
    /\ LET h == TermDecode(bk, input, pos)
           log == IF h.tagged
                  THEN Append(tagLog, [tag |-> h.tag, at |-> pos])
                  ELSE tagLog
       IN  /\ tagLog' = log
           /\ constLog' = IF h.tagged /\ h.tag = 4
                          THEN ConstantObserved(input, pos + TERM_TAG_WIDTH)
                          ELSE constLog
           /\ pos' = h.pos
           /\ IF h.st = "ok"
              THEN /\ UNCHANGED <<err, failure>>
                   /\ IF h.kind = "push"
                      THEN /\ stack' = Append(stack, h.frame)
                           /\ UNCHANGED <<phase, pc, status, result>>
                      ELSE LET ret == TermReturn(h.val, stack)
                           IN  /\ stack' = ret.stack
                               /\ pc' = ret.pc
                               /\ result' = ret.result
                               /\ status' = IF ret.pc = "none" THEN "ok"
                                            ELSE status
                               /\ phase' = IF ret.pc = "none" THEN "done"
                                           ELSE phase
              ELSE LET f == Propagate(h, stack)
                   IN  /\ failure' = IF failure.seen THEN failure
                                     ELSE [seen |-> TRUE, st |-> h.st,
                                           err |-> h.err, pos |-> h.pos,
                                           nodes |-> Len(log)]
                       /\ status' = f.status
                       /\ err' = f.err
                       /\ stack' = f.stack
                       /\ pc' = f.pc
                       /\ result' = f.result
                       /\ phase' = IF f.pc = "none" THEN "done" ELSE phase
    /\ UNCHANGED <<bk, orig, out, input, raw, fed, call>>

\* Program::unflat after Program::decode: the filler that pads the last byte.
DecodeFiller ==
    /\ phase = "decoding"
    /\ pc = "filler"
    /\ InputReady
    /\ LET r == DFiller(input, pos)
       IN  /\ pos' = r.pos
           /\ status' = r.st
           /\ err' = r.err
           /\ result' = IF r.st = "ok" THEN result ELSE NoProgram
           /\ failure' = IF r.st = "ok" THEN failure
                         ELSE [seen |-> TRUE, st |-> r.st, err |-> r.err,
                               pos |-> r.pos, nodes |-> Len(tagLog)]
    /\ pc' = "none"
    /\ phase' = "done"
    /\ UNCHANGED <<bk, orig, out, input, raw, fed, stack, tagLog, constLog,
                   call>>

\* A single call of an encoding function on an encoder that holds bits e.
Called(op, v, c, e, res) ==
    /\ phase' = "called"
    /\ call' = [op |-> op, v |-> v, c |-> c, before |-> e, res |-> res]
    /\ UNCHANGED <<bk, orig, out, input, raw, fed, pos, pc, stack, status,
                   err, result, tagLog, constLog, failure>>

CallEncodeTermTag ==
    /\ phase = "init"
    /\ \E v \in 0..255 : \E e \in Prefixes :
          Called("encode_term_tag", v, NoConstant, e, encode_term_tag(v, e))

CallEncodeConstantTag ==
    /\ phase = "init"
    /\ \E v \in 0..255 : \E e \in Prefixes :
          Called("encode_constant_tag", v, NoConstant, e,
                 encode_constant_tag(v, e))

CallDefaultFunctionEncode ==
    /\ phase = "init"
    /\ \E fn \in BuiltinIds : \E e \in Prefixes :
          Called("DefaultFunction::encode", fn, NoConstant, e,
                 DefaultFunctionEncode(fn, e))

CallConstantEncode ==
    /\ phase = "init"
    /\ \E c \in Constants : \E e \in Prefixes :
          Called("Constant::encode", 0, c, e, ConstantEncode(c, e))

Next ==
    \/ ToFlat
    \/ Unflat
    \/ UnflatBytes
    \/ DecodeBytes
    \/ Feed
    \/ DecodeProgram
    \/ DecodeTerm
    \/ DecodeFiller
    \/ CallEncodeTermTag
    \/ CallEncodeConstantTag
    \/ CallDefaultFunctionEncode
    \/ CallConstantEncode

Spec == Init /\ [][Next]_vars

(***************************************************************************)
(* Properties.                                                             *)
(***************************************************************************)
\* The bits of the three unsigned varints of a version.
VersionBits(v) ==
    EWord(v[3], EWord(v[2], EWord(v[1], <<>>)))

\* The bits a call appended to the encoder.
Appended(c) ==
    SubSeq(c.res.e, Len(c.before) + 1, Len(c.res.e))

\* A round trip has ended: to_flat, then unflat of its bytes.
RoundTripDone ==
    phase = "done" /\ ~raw /\ orig # NoProgram

\* t with the index of every Lambda parameter replaced by the sentinel 0.
RECURSIVE ResetParameters(_)
ResetParameters(t) ==
    MkTerm(t.tag,
           IF t.tag = "Lambda" THEN [t.name EXCEPT !.index = 0] ELSE t.name,
           t.c, t.fn,
           [i \in 1..Len(t.sub) |-> ResetParameters(t.sub[i])])

\* Whether a Char constant occurs in t.
RECURSIVE HasChar(_)
HasChar(t) ==
    \/ t.tag = "Constant" /\ t.c.kind = "Char"
    \/ \E i \in 1..Len(t.sub) : HasChar(t.sub[i])

\* The tag table of section 6.
TagOfVariant(variant) ==
    CASE variant = "Var" -> 0
      [] variant = "Delay" -> 1
      [] variant = "Lambda" -> 2
      [] variant = "Apply" -> 3
      [] variant = "Constant" -> 4
      [] variant = "Force" -> 5
      [] variant = "Error" -> 6
      [] variant = "Builtin" -> 7

\* The tags of the nodes of t, a node before its subterms, function before
\* argument.
RECURSIVE PreOrderTags(_)
PreOrderTags(t) ==
    <<TagOfVariant(t.tag)>>
    \o (IF Len(t.sub) >= 1 THEN PreOrderTags(t.sub[1]) ELSE <<>>)
    \o (IF Len(t.sub) >= 2 THEN PreOrderTags(t.sub[2]) ELSE <<>>)

FixtureProgram ==
    Program(<<11, 22, 33>>, Constant(ConstInteger(11)))

\* 0b00001011, 0b00010110, 0b00100001, 0b01001000, 0b00000101, 0b10000001
FixtureBytes ==
    <<11, 22, 33, 72, 5, 129>>

----------------------------------------------------------------------------
\* C1: round trip over Named binders: for every Program<Name> p, Char
\* constants included, decoding the bytes of to_flat(p) succeeds and yields
\* a Program equal to p.
RoundTripNamed ==
    RoundTripDone /\ bk = "Name" => status = "ok" /\ result = orig

TagOverflowProtected ==
    call.op \in {"encode_term_tag", "encode_constant_tag",
                 "DefaultFunction::encode"} =>
        LET w == IF call.op = "DefaultFunction::encode"
                 THEN BUILTIN_TAG_WIDTH ELSE TERM_TAG_WIDTH
        IN  IF call.v >= Pow2(w)
            THEN /\ ~call.res.ok
                 /\ call.res.err = Err("Overflow", call.v, w)
                 /\ call.res.e = call.before
            ELSE /\ call.res.ok
                 /\ Len(call.res.e) = Len(call.before) + w

\* C4: decoding never panics: it ends with a value or with an error.
NoPanic ==
    /\ status # "panic"
    /\ phase = "done" => status \in {"ok", "err"}

\* C5: a term tag N in 8..15 is the error "unknown term constructor tag N",
\* and nothing is read after the tag; the first failure of any call is what
\* every enclosing call returns: the same error, the cursor where the
\* failure left it, no later sibling decoded, no partial Term.
ErrorPropagation ==
    /\ tagLog # <<>> /\ tagLog[Len(tagLog)].tag \in 8..15 =>
          /\ status = "err"
          /\ err = Err("UnknownTermTag", tagLog[Len(tagLog)].tag, 0)
          /\ pos = tagLog[Len(tagLog)].at + TERM_TAG_WIDTH
    /\ status = "err" /\ err.kind = "UnknownTermTag" =>
          tagLog # <<>> /\ tagLog[Len(tagLog)].tag = err.n /\ err.n \in 8..15
    /\ failure.seen /\ failure.st = "err" =>
          /\ phase = "done"
          /\ status = "err"
          /\ err = failure.err
          /\ pos = failure.pos
          /\ Len(tagLog) = failure.nodes
          /\ result = NoProgram

\* An Apply whose function is an unknown tag: the argument is not decoded.
ErrorPropagationWitness ==
    /\ phase = "done"
    /\ status = "err"
    /\ err.kind = "UnknownTermTag"
    /\ Len(tagLog) = 2
    /\ tagLog[1].tag = 3
    /\ pos = 8

\* C6: Constant::decode reads the kind-tag list; more than one element is
\* the malformed-constant-tag error; a single tag 0, 1, 2, 3, 4 gives the
\* Integer, ByteString, String, Unit (no payload), Bool (one bit) read by
\* the payload's own decoder; a single tag in 5..15 is the error "unknown
\* constant tag N", and no payload is read.
ConstantDispatch ==
    constLog.seen /\ constLog.listed /\ Len(constLog.tags) >= 1 =>
        LET x == constLog.tags[1]
            q == constLog.after
            payload == CASE x = 0 -> DInteger(input, q)
                         [] x = 1 -> DBytes(input, q)
                         [] x = 2 -> DUtf8(input, q)
                         [] x = 4 -> DBool(input, q)
                         [] OTHER -> DOk(0, q)
            expected == CASE x = 0 -> ConstInteger(payload.val)
                          [] x = 1 -> ConstByteString(payload.val)
                          [] x = 2 -> ConstString(payload.val)
                          [] x = 3 -> ConstUnit
                          [] x = 4 -> ConstBool(payload.val)
                          [] OTHER -> NoConstant
        IN  IF Len(constLog.tags) > 1
            THEN /\ constLog.st = "err"
                 /\ constLog.err = Err("ImproperConstantTag", 0, 0)
            ELSE IF x \in 5..15
            THEN /\ constLog.st = "err"
                 /\ constLog.err = Err("UnknownConstantTag", x, 0)
                 /\ constLog.pos = q
            ELSE IF payload.st = "ok"
            THEN /\ constLog.st = "ok"
                 /\ constLog.c = expected
                 /\ constLog.pos = payload.pos
                 /\ x = 3 => constLog.pos = q
                 /\ x = 4 => constLog.pos = q + 1
            ELSE /\ constLog.st = "err"
                 /\ constLog.err = payload.err

\* A list of two kind tags was read and rejected.
ConstantDispatchWitness ==
    /\ constLog.seen
    /\ constLog.listed
    /\ Len(constLog.tags) = 2
    /\ status = "err"
    /\ err.kind = "ImproperConstantTag"

\* C7: for DeBruijn and NamedDeBruijn binders and no Char constant, the
\* round trip succeeds and yields the program with every Lambda parameter
\* index replaced by 0 and all else unchanged (shape, Var indices, texts);
\* a Lambda parameter writes no bits (DeBruijn) or only its text
\* (NamedDeBruijn), so the encoding does not depend on its index.
AsymmetricRoundTrip ==
    bk \in {"DeBruijn", "NamedDeBruijn"} /\ orig # NoProgram
    /\ ~HasChar(orig.term) =>
        /\ phase = "encoded" =>
              out = to_flat(bk, Program(orig.version,
                                        ResetParameters(orig.term)))
        /\ phase = "encoded" /\ orig.term.tag = "Lambda" =>
              LET tb == VersionBits(orig.version) \o BitsOf(4, 2)
                  pb == IF bk = "DeBruijn" THEN tb
                        ELSE EBytes(orig.term.name.text, tb)
              IN  out.e = EFiller(TermEncode(bk, orig.term.sub[1], pb).e)
        /\ phase = "done" =>
              /\ status = "ok"
              /\ result = Program(orig.version, ResetParameters(orig.term))

\* A Lambda over a Var of the same non-zero index, DeBruijn binders.
AsymmetricRoundTripWitness ==
    /\ RoundTripDone
    /\ bk = "DeBruijn"
    /\ orig.term = Lambda(DeBruijn(130), Var(DeBruijn(130)))
    /\ status = "ok"
    /\ result.term = Lambda(DeBruijn(0), Var(DeBruijn(130)))

\* C8: the tag table and the field order, the same in both directions:
\* encoding writes the 4-bit tag of the variant first, then the payload in
\* declared order (Lambda: parameter, body; Apply: function, argument;
\* Error: nothing); decoding maps each tag read to the same variant and
\* fills the fields in the same order, so that a program with no Char
\* constant (whose own coding is the matter of C1) comes back field by field.
TagTableStable ==
    /\ phase = "encoded" =>
          LET vb == VersionBits(orig.version)
              t == orig.term
              tb == vb \o BitsOf(4, TagOfVariant(t.tag))
          IN  /\ out.ok
              /\ SubSeq(out.e, 1, Len(tb)) = tb
              /\ t.tag = "Lambda" =>
                    out.e = EFiller(TermEncode(bk, t.sub[1],
                                       binder_encode(bk, t.name, tb).e).e)
              /\ t.tag = "Apply" =>
                    out.e = EFiller(TermEncode(bk, t.sub[2],
                                       TermEncode(bk, t.sub[1], tb).e).e)
              /\ t.tag = "Error" => out.e = EFiller(tb)
    /\ status = "ok" =>
          PreOrderTags(result.term) = [i \in 1..Len(tagLog) |-> tagLog[i].tag]
    /\ RoundTripDone /\ status = "ok" /\ ~HasChar(orig.term) =>
          result.term = (IF bk = "Name" THEN orig.term
                         ELSE ResetParameters(orig.term))

\* An Apply of two different variants was encoded and decoded.
TagTableStableWitness ==
    /\ RoundTripDone
    /\ status = "ok"
    /\ orig.term.tag = "Apply"
    /\ orig.term.sub[1].tag = "Constant"
    /\ orig.term.sub[2].tag = "Builtin"
    /\ result.term = orig.term

\* While decoding runs a step can be taken: a call of the decoder, or one
\* more bit of the input revealed to it.
CanStep ==
    /\ pc \in {"program", "term", "filler"}
    /\ InputReady \/ ~(fed >= MaxBits /\ Len(input) % 8 = 0)

\* C9: decoding ends, with a value or an error: while it runs a step can be
\* taken, and the cursor only moves forward and never past the input: every
\* Term whose tag was read starts where the one before it ended or later
\* and takes at least the 4 tag bits, so the number of Terms decoded is
\* bounded by the bits of the input.
DecodingTerminates ==
    /\ phase = "decoding" => CanStep
    /\ \A i \in 1..Len(tagLog) :
          tagLog[i].at + TERM_TAG_WIDTH
             <= (IF i < Len(tagLog) THEN tagLog[i + 1].at ELSE pos)
    /\ TERM_TAG_WIDTH * Len(tagLog) <= pos
    /\ pos <= Len(input)
    /\ phase = "done" => status \in {"ok", "err"}

\* C10 (as claimed): Constant::Char(c) appends the bits that
\* Constant::ByteString(utf8(c)) appends, with the 6 bits of the list of one
\* kind tag removed.
CharIsByteStringLessTag ==
    call.op = "Constant::encode" /\ call.c.kind = "Char" =>
        LET bs == ConstantEncode(ConstByteString(Utf8(call.c.i)), call.before)
            appended == SubSeq(bs.e, Len(call.before) + 1, Len(bs.e))
        IN  /\ call.res.ok
            /\ Appended(call) = SubSeq(appended, 7, Len(appended))

\* C10 (amended): Constant::Char(c) writes no kind-tag list: it appends what
\* the ByteString payload path appends at the same bit position, the filler
\* up to the byte boundary and then the length-prefixed 1 to 4 UTF-8 bytes.
\* Constant::ByteString(utf8(c)) appends the 6 tag bits, its own filler
\* (from a position 6 bits further) and then the same bytes.
CharIsBytesPayload ==
    call.op = "Constant::encode" /\ call.c.kind = "Char" =>
        LET u == Utf8(call.c.i)
            blocks == BytesBits(<<Len(u)>> \o u \o <<0>>)
            bs == ConstantEncode(ConstByteString(u), call.before)
        IN  /\ Len(u) \in 1..4
            /\ call.res.ok
            /\ call.res.e = EFiller(call.before) \o blocks
            /\ bs.e = EFiller(call.before \o <<1, 0, 0, 0, 1, 0>>) \o blocks

\* U+1F600 (4 bytes) written right after a term tag.
CharIsBytesPayloadWitness ==
    /\ call.op = "Constant::encode"
    /\ call.c = ConstChar(128512)
    /\ Len(call.before) = 4
    /\ call.res.ok
    /\ Len(Appended(call)) = 4 + 8 * 6

=============================================================================
